---- MODULE Spec2Model ----
(***************************************************************************)
(* Model of @balena/variable-substitution (src/lib/index.ts).              *)
(*                                                                         *)
(* A JavaScript string is a sequence of one-character strings.  A thrown   *)
(* error ends the call: pc = "thrown" and error holds its class and        *)
(* message.  The replacer passed to String.prototype.replace is split at   *)
(* the call of opts.onMatchPlaceholder into OnMatch (lines 176-204) and    *)
(* Decide (lines 206-248), so that the moment between the observation and  *)
(* the substitution decision is a state of the model.                      *)
(***************************************************************************)
EXTENDS Integers, Sequences, FiniteSets

VARIABLES
  env,        \* the Environment given to makeInterpolator
  opts,       \* the InternalOptions: preserveEscaped, preserveUndefined
  obj,        \* the value the interpolator is called with
  pc,         \* "ready", "scan", "decide", "returned" or "thrown"
  leaves,     \* the strings of obj, in the order interpolate0 reaches them
  li,         \* the string interpolateString is working on: leaves[li]
  lastIndex,  \* where the search for the next match starts (1-based)
  acc,        \* the result of str.replace so far
  outs,       \* the results of interpolateString for leaves[1 .. li - 1]
  cur,        \* the match the replacer was last called with
  emitted,    \* what the replacer last returned
  calls,      \* the Match records opts.onMatchPlaceholder has received
  result,     \* the value returned
  error       \* the error thrown

vars == <<env, opts, obj, pc, leaves, li, lastIndex, acc, outs, cur, emitted,
          calls, result, error>>

----------------------------------------------------------------------------
(* Bounds of the model *)

\* most consecutive '$' in front of a generated placeholder
MaxDollars == 3
\* longest text between the name and the closing brace of a generated placeholder
MaxTail == 3
\* longest string of the exhaustively enumerated short inputs
MaxShort == 3
\* most nodes (strings, scalars, arrays, objects) of a generated value tree
MaxNodes == 4

----------------------------------------------------------------------------
(* Characters *)

\* the characters of \w that occur in the model's inputs and values
WordChars ==
  { "A", "B", "d", "v", "t", "r", "u", "e", "f", "a", "l", "s",
    "0", "1", "2", "3", "4", "5", "6", "7", "8", "9" }
\* the character class [:\-\?]
OpChars == {":", "-", "?"}
Chars == WordChars \cup OpChars \cup {"$", "{", "}", " "}
\* the character class [^}]
NotClose == Chars \ {"}"}

RECURSIVE Dollars(_)
Dollars(k) == IF k = 0 THEN <<>> ELSE <<"$">> \o Dollars(k - 1)

\* String.prototype.substring(from) with a 0-based index
Substring(s, from) == SubSeq(s, from + 1, Len(s))

\* all sequences over S of length at most n
RECURSIVE SeqsUpTo(_, _)
SeqsUpTo(S, n) ==
  IF n = 0 THEN {<<>>}
  ELSE LET shorter == SeqsUpTo(S, n - 1)
       IN  shorter \cup {Append(t, c) : t \in {u \in shorter : Len(u) = n - 1}, c \in S}

----------------------------------------------------------------------------
(* JavaScript values *)

\* a value of the environment: what env[name] evaluates to
Absent    == [t |-> "absent",    s |-> <<>>, n |-> 0]
Null      == [t |-> "null",      s |-> <<>>, n |-> 0]
Undefined == [t |-> "undefined", s |-> <<>>, n |-> 0]
Str(s)    == [t |-> "string",    s |-> s,    n |-> 0]
Num(n)    == [t |-> "number",    s |-> <<>>, n |-> n]
Bool(b)   == [t |-> "boolean",   s |-> <<>>, n |-> IF b THEN 1 ELSE 0]

\* x == null
IsNullish(x) == x.t \in {"absent", "null", "undefined"}

\* ToBoolean(x), the test of x || y
Truthy(x) ==
  CASE x.t = "string"  -> x.s # <<>>
    [] x.t = "number"  -> x.n # 0
    [] x.t = "boolean" -> x.n = 1
    [] OTHER           -> FALSE

DigitChars == <<"0", "1", "2", "3", "4", "5", "6", "7", "8", "9">>

\* Number.prototype.toString of a natural number
RECURSIVE DecimalString(_)
DecimalString(n) ==
  IF n < 10 THEN <<DigitChars[n + 1]>>
  ELSE Append(DecimalString(n \div 10), DigitChars[(n % 10) + 1])

\* x.toString() of a string, a number or a boolean
toString(x) ==
  CASE x.t = "string"  -> x.s
    [] x.t = "number"  -> DecimalString(x.n)
    [] x.t = "boolean" -> IF x.n = 1 THEN <<"t", "r", "u", "e">>
                                     ELSE <<"f", "a", "l", "s", "e">>
    [] OTHER           -> <<>>

\* env[name], for an environment without prototype (or a name that is no
\* member of Object.prototype): a name the environment does not hold
\* evaluates to undefined
Lookup(e, name) == IF name \in DOMAIN e THEN e[name] ELSE Absent

----------------------------------------------------------------------------
(* The regular expression                                                  *)
(*   /(\$+)?\$(?:(\w+)|{(\w+)(?:([:\-\?]+)([^}]+))?})/g                    *)

\* a capture group that did not take part in the match
NoGroup == [def |-> FALSE, s |-> <<>>]
Group(s) == [def |-> TRUE, s |-> s]

\* length of the longest run of characters of class C that starts at p
RECURSIVE Run(_, _, _)
Run(s, p, C) == IF p <= Len(s) /\ s[p] \in C THEN 1 + Run(s, p + 1, C) ELSE 0

At(s, p, c) == p <= Len(s) /\ s[p] = c

\* the largest element of a non-empty set of tuples in lexicographic order:
\* the path a backtracking matcher with greedy quantifiers finds first
Before(a, b) ==
  \E i \in 1..Len(a) : a[i] > b[i] /\ \A j \in 1..(i - 1) : a[j] = b[j]
First(P) == CHOOSE a \in P : \A b \in P \ {a} : Before(a, b)

\* BracedPaths with an operator group of one character, ([:\-\?]) for ([:\-\?]+)
BracedPaths_OneCharOperator(s, p) ==
  IF ~At(s, p, "{") THEN {}
  ELSE UNION { LET q == p + 1 + n IN
                 (IF At(s, q, "}") THEN {<<n, 0, 0>>} ELSE {})
                 \cup UNION { { <<n, k, f>> : f \in { g \in 1..Run(s, q + k, NotClose) :
                                                      At(s, q + k + g, "}") } }
                              : k \in { k1 \in 1..Run(s, q, OpChars) : k1 = 1 } }
               : n \in 1..Run(s, p + 1, WordChars) }

\* the ways {(\w+)(?:([:\-\?]+)([^}]+))?} matches at p, as <<n, k, f>>: the
\* lengths of the name, the operator and the fallback (k = 0: the optional
\* group is skipped)
BracedPaths(s, p) ==
  IF ~At(s, p, "{") THEN {}
  ELSE UNION { LET q == p + 1 + n IN
                 (IF At(s, q, "}") THEN {<<n, 0, 0>>} ELSE {})
                 \cup UNION { { <<n, k, f>> : f \in { g \in 1..Run(s, q + k, NotClose) :
                                                      At(s, q + k + g, "}") } }
                              : k \in 1..Run(s, q, OpChars) }
               : n \in 1..Run(s, p + 1, WordChars) }

\* the ways (\w+) matches at p, as <<n, 0, 0>>
UnbracedPaths(s, p) == { <<n, 0, 0>> : n \in 1..Run(s, p, WordChars) }

\* the ways the whole expression matches at i, as <<j, b, n, k, f>>: j is the
\* length of (\$+) (0: skipped), b = 1 for the first alternative
MatchPaths(s, i) ==
  UNION { LET p == i + j + 1 IN
            IF ~At(s, i + j, "$") THEN {}
            ELSE { <<j, 1, t[1], t[2], t[3]>> : t \in UnbracedPaths(s, p) }
                 \cup { <<j, 0, t[1], t[2], t[3]>> : t \in BracedPaths(s, p) }
          : j \in 0..Run(s, i, {"$"}) }

\* the match at i as the replacer receives it
MatchAt(s, i) ==
  LET t == First(MatchPaths(s, i))
      j == t[1]
      n == t[3]
      k == t[4]
      f == t[5]
      p == i + j + 1
      len == IF t[2] = 1 THEN j + 1 + n
             ELSE j + 1 + 1 + n + k + f + 1
  IN  [ index    |-> i,
        match    |-> SubSeq(s, i, i + len - 1),
        escaped  |-> IF j = 0 THEN NoGroup ELSE Group(SubSeq(s, i, i + j - 1)),
        name1    |-> IF t[2] = 1 THEN Group(SubSeq(s, p, p + n - 1)) ELSE NoGroup,
        name2    |-> IF t[2] = 0 THEN Group(SubSeq(s, p + 1, p + n)) ELSE NoGroup,
        kind     |-> IF k > 0 THEN Group(SubSeq(s, p + 1 + n, p + n + k)) ELSE NoGroup,
        fallback |-> IF k > 0 THEN Group(SubSeq(s, p + 1 + n + k, p + n + k + f))
                     ELSE NoGroup ]

\* the first position at or after `from` where the expression matches, 0 if
\* there is none: the matcher tries every start position from left to right
RECURSIVE FirstStart(_, _)
FirstStart(s, from) ==
  IF from > Len(s) THEN 0
  ELSE IF MatchPaths(s, from) # {} THEN from
  ELSE FirstStart(s, from + 1)

NoMatch == [ index |-> 0, match |-> <<>>, escaped |-> NoGroup, name1 |-> NoGroup,
             name2 |-> NoGroup, kind |-> NoGroup, fallback |-> NoGroup ]

\* regex.exec with lastIndex = from - 1: the leftmost match, NoMatch for null
RegexExec(s, from) ==
  LET i == FirstStart(s, from)
  IN  IF i = 0 THEN NoMatch ELSE MatchAt(s, i)

----------------------------------------------------------------------------
(* Value trees: what interpolate is given and returns *)

\* typeof a === 'string'
StringOf(s) == [tag |-> "string", s |-> s, keys |-> <<>>, items |-> <<>>, v |-> Absent]
\* Array.isArray(a)
ArrayOf(items) ==
  [tag |-> "array", s |-> <<>>, keys |-> <<>>, items |-> items, v |-> Absent]
\* a plain object: keys in iteration order, items[i] the value of keys[i]
ObjectOf(keys, items) ==
  [tag |-> "object", s |-> <<>>, keys |-> keys, items |-> items, v |-> Absent]
\* anything else: a number, a boolean, null
Other(v) == [tag |-> "other", s |-> <<>>, keys |-> <<>>, items |-> <<>>, v |-> v]

isString(a) == a.tag = "string"
isArray(a) == a.tag = "array"
isObject(a) == a.tag = "object"

\* the strings interpolate0 hands to interpolateString, in the order of its
\* calls: Array.prototype.map and Object.entries(..).map go left to right and
\* each callback finishes its recursion before the next element is visited
RECURSIVE StringLeaves(_)
RECURSIVE LeavesOfItems(_, _)
StringLeaves(a) ==
  IF isString(a) THEN <<a.s>>
  ELSE IF isArray(a) \/ isObject(a) THEN LeavesOfItems(a.items, 1)
  ELSE <<>>
LeavesOfItems(items, i) ==
  IF i > Len(items) THEN <<>>
  ELSE StringLeaves(items[i]) \o LeavesOfItems(items, i + 1)

\* the value interpolate0 returns for a, given the strings interpolateString
\* returned for its leaves; o[k + 1] is the result for the first leaf of a
RECURSIVE Rebuild(_, _, _)
RECURSIVE RebuildItems(_, _, _, _)

\* Rebuild without Object.fromEntries: an object comes back as its mapped entries
Rebuild_NoFromEntries(a, o, k) ==
  IF isString(a) THEN StringOf(o[k + 1])
  ELSE IF isArray(a) \/ isObject(a) THEN ArrayOf(RebuildItems(a.items, 1, o, k))
  ELSE a

Rebuild(a, o, k) ==
  IF isString(a) THEN StringOf(o[k + 1])
  ELSE IF isArray(a) THEN ArrayOf(RebuildItems(a.items, 1, o, k))
  ELSE IF isObject(a) THEN ObjectOf(a.keys, RebuildItems(a.items, 1, o, k))
  ELSE a
RebuildItems(items, i, o, k) ==
  IF i > Len(items) THEN <<>>
  ELSE <<Rebuild(items[i], o, k)>>
       \o RebuildItems(items, i + 1, o, k + Len(StringLeaves(items[i])))

----------------------------------------------------------------------------
(* The replacer of interpolateString *)

\* name1 || name2
NameOf(m) == IF m.name1.def /\ m.name1.s # <<>> THEN m.name1.s ELSE m.name2.s

\* env[name] == null ? undefined : env[name]
rawValue(m, e) ==
  IF IsNullish(Lookup(e, NameOf(m))) THEN Undefined ELSE Lookup(e, NameOf(m))

\* (rawValue || '').toString()
value(m, e) ==
  IF Truthy(rawValue(m, e)) THEN toString(rawValue(m, e)) ELSE toString(Str(<<>>))

isUndefined(m, e) == IsNullish(rawValue(m, e))
isEmpty(m, e) == value(m, e) = <<>>
isEscaped(m) == m.escaped.def

NotPlaceholder(m) == ~m.name1.def /\ ~m.name2.def

NoOperator == [def |-> FALSE, kind |-> <<>>, fallback |-> <<>>]
\* operator = { kind, fallback }
operator(m) ==
  IF m.kind.def THEN [def |-> TRUE, kind |-> m.kind.s, fallback |-> m.fallback.s]
  ELSE NoOperator

\* the Match handed to opts.onMatchPlaceholder
MatchRecord(m, e) ==
  [ placeholder |-> m.match,
    name        |-> NameOf(m),
    value       |-> rawValue(m, e),
    operator    |-> operator(m),
    escaped     |-> isEscaped(m) ]

NoError == [class |-> "none", message |-> <<>>]
\* class ValueError extends TypedError
ValueError(message) == [class |-> "ValueError", message |-> message]
\* class SyntaxError: `Invalid interpolation syntax; ${message}`
SyntaxError(message) ==
  [class |-> "SyntaxError", message |-> <<"Invalid interpolation syntax; ">> \o message]

Return(text) == [throws |-> FALSE, text |-> text, error |-> NoError]
Throw(err) == [throws |-> TRUE, text |-> <<>>, error |-> err]

\* BeforeCallback with the escaped placeholders returned before the observation
BeforeCallback_EscapedFirst(m) ==
  IF NotPlaceholder(m) \/ isEscaped(m) THEN [observe |-> FALSE, out |-> Return(m.match)]
  ELSE IF m.kind.def /\ ~m.fallback.def
    THEN [observe |-> FALSE,
          out |-> Throw(SyntaxError(<<"fallback not specified: '">> \o m.match \o <<"'">>))]
  ELSE [observe |-> TRUE, out |-> Return(<<>>)]

\* the replacer up to the call of opts.onMatchPlaceholder: what it does before
\* the observation, "observe" when it reaches the callback
BeforeCallback(m) ==
  IF NotPlaceholder(m) THEN [observe |-> FALSE, out |-> Return(m.match)]
  ELSE IF m.kind.def /\ ~m.fallback.def
    THEN [observe |-> FALSE,
          out |-> Throw(SyntaxError(<<"fallback not specified: '">> \o m.match \o <<"'">>))]
  ELSE [observe |-> TRUE, out |-> Return(<<>>)]

\* Dispatch with ':-' and ':?' testing isUndefined alone, as '-' and '?' do
Dispatch_ColonAsPlain(m, e) ==
  LET op == operator(m) IN
  CASE op.kind \in {<<"-">>, <<":", "-">>} ->
         IF isUndefined(m, e) THEN Return(op.fallback) ELSE Return(value(m, e))
    [] op.kind \in {<<"?">>, <<":", "?">>} ->
         IF isUndefined(m, e) THEN Throw(ValueError(op.fallback)) ELSE Return(value(m, e))
    [] OTHER ->
         Throw(SyntaxError(<<"unknown operator: '">> \o op.kind \o <<"'">>))

\* Dispatch with a default case that returns the value
Dispatch_UnknownAsNone(m, e) ==
  LET op == operator(m) IN
  CASE op.kind = <<"-">> ->
         IF isUndefined(m, e) THEN Return(op.fallback) ELSE Return(value(m, e))
    [] op.kind = <<"?">> ->
         IF isUndefined(m, e) THEN Throw(ValueError(op.fallback)) ELSE Return(value(m, e))
    [] op.kind = <<":", "-">> ->
         IF isUndefined(m, e) \/ isEmpty(m, e) THEN Return(op.fallback)
         ELSE Return(value(m, e))
    [] op.kind = <<":", "?">> ->
         IF isUndefined(m, e) \/ isEmpty(m, e) THEN Throw(ValueError(op.fallback))
         ELSE Return(value(m, e))
    [] OTHER -> Return(value(m, e))

\* switch (operator.kind)
Dispatch(m, e) ==
  LET op == operator(m) IN
  CASE op.kind = <<"-">> ->
         IF isUndefined(m, e) THEN Return(op.fallback) ELSE Return(value(m, e))
    [] op.kind = <<"?">> ->
         IF isUndefined(m, e) THEN Throw(ValueError(op.fallback)) ELSE Return(value(m, e))
    [] op.kind = <<":", "-">> ->
         IF isUndefined(m, e) \/ isEmpty(m, e) THEN Return(op.fallback)
         ELSE Return(value(m, e))
    [] op.kind = <<":", "?">> ->
         IF isUndefined(m, e) \/ isEmpty(m, e) THEN Throw(ValueError(op.fallback))
         ELSE Return(value(m, e))
    [] OTHER ->
         Throw(SyntaxError(<<"unknown operator: '">> \o op.kind \o <<"'">>))

\* AfterCallback removing the whole escape group, match.substring(escaped.length)
AfterCallback_StripAllEscapes(m, e, o) ==
  IF isEscaped(m)
    THEN IF o.preserveEscaped THEN Return(m.match)
         ELSE Return(Substring(m.match, Len(m.escaped.s)))
  ELSE IF isUndefined(m, e) /\ o.preserveUndefined THEN Return(m.match)
  ELSE IF ~operator(m).def THEN Return(value(m, e))
  ELSE Dispatch(m, e)

\* AfterCallback with preserveUndefined tested only when there is no operator
AfterCallback_PreserveLate(m, e, o) ==
  IF isEscaped(m)
    THEN IF o.preserveEscaped THEN Return(m.match) ELSE Return(Substring(m.match, 1))
  ELSE IF operator(m).def THEN Dispatch(m, e)
  ELSE IF isUndefined(m, e) /\ o.preserveUndefined THEN Return(m.match)
  ELSE Return(value(m, e))

\* AfterCallback ignoring preserveEscaped
AfterCallback_AlwaysUnescape(m, e, o) ==
  IF isEscaped(m) THEN Return(Substring(m.match, 1))
  ELSE IF isUndefined(m, e) /\ o.preserveUndefined THEN Return(m.match)
  ELSE IF ~operator(m).def THEN Return(value(m, e))
  ELSE Dispatch(m, e)

\* the replacer after the call of opts.onMatchPlaceholder
AfterCallback(m, e, o) ==
  IF isEscaped(m)
    THEN IF o.preserveEscaped THEN Return(m.match) ELSE Return(Substring(m.match, 1))
  ELSE IF isUndefined(m, e) /\ o.preserveUndefined THEN Return(m.match)
  ELSE IF ~operator(m).def THEN Return(value(m, e))
  ELSE Dispatch(m, e)

----------------------------------------------------------------------------
(* Inputs *)

EnvNames == {<<"A">>, <<"B">>}

EnvValues ==
  { Absent, Null, Undefined, Str(<<>>), Str(<<"v">>), Num(0), Num(5),
    Bool(FALSE), Bool(TRUE) }

\* environments of the string engine: A holds any value, B is defined and
\* never referenced
Envs == { e \in [EnvNames -> EnvValues] : e[<<"B">>] = Str(<<"v">>) }

\* environments of the tree walk: strings or nothing
TreeEnvs == [EnvNames -> {Absent, Str(<<"v">>)}]

Options == [preserveEscaped : BOOLEAN, preserveUndefined : BOOLEAN]

TailChars == OpChars \cup {"d"}
Tails == SeqsUpTo(TailChars, MaxTail)

Unbraced(k, name) == Dollars(k) \o name
Braced(k, name, tail) == Dollars(k) \o <<"{">> \o name \o tail \o <<"}">>

\* one placeholder: every operator and fallback text of up to MaxTail characters
Placeholders ==
  { Unbraced(k, <<"A">>) : k \in 1..MaxDollars }
  \cup { Braced(k, <<"A">>, tail) : k \in 1..MaxDollars, tail \in Tails }

\* every string of up to MaxShort characters over these
ShortStrings == SeqsUpTo({"$", "{", "}", "A", "-"}, MaxShort)

Strings == Placeholders \cup ShortStrings

\* the strings of the generated trees
\*   '$A ${B'             a substitution, then text that is no placeholder
\*   '$$A${B?d}${A:d}'    an escaped placeholder, one that can throw
\*                        ValueError, one that can throw SyntaxError
\*   '${B:-d}$$${A:?d}'   a default, then an escaped placeholder with operator
Leaf1 == <<"$", "A", " ", "$", "{", "B">>
Leaf2 == <<"$", "$", "A", "$", "{", "B", "?", "d", "}", "$", "{", "A", ":", "d", "}">>
Leaf3 == <<"$", "{", "B", ":", "-", "d", "}", "$", "$", "$", "{", "A", ":", "?", "d", "}">>

LeafValues == { StringOf(Leaf1), StringOf(Leaf2), StringOf(Leaf3), Other(Num(5)) }

\* the keys of a generated object: the first one is placeholder text
RECURSIVE KeysFor(_)
KeysFor(n) ==
  IF n = 0 THEN <<>>
  ELSE IF n = 1 THEN << <<"$", "A">> >>
  ELSE LET ks == KeysFor(n - 1) IN Append(ks, Append(ks[n - 1], "k"))

\* the value trees of exactly n nodes, and the sequences of trees of n nodes
\* in all
RECURSIVE TreesOfSize(_)
RECURSIVE ForestsOfSize(_)
TreesOfSize(n) ==
  (IF n = 1 THEN LeafValues ELSE {})
  \cup { ArrayOf(f) : f \in ForestsOfSize(n - 1) }
  \cup { ObjectOf(KeysFor(Len(f)), f) : f \in ForestsOfSize(n - 1) }
ForestsOfSize(n) ==
  IF n = 0 THEN {<<>>}
  ELSE UNION { { <<a>> \o f : a \in TreesOfSize(k), f \in ForestsOfSize(n - k) }
               : k \in 1..n }

Trees == UNION { TreesOfSize(n) : n \in 1..MaxNodes }

----------------------------------------------------------------------------
(* The state machine *)

NoValue == Other(Undefined)

\* makeInterpolator(env, options)
Init ==
  /\ env \in Envs
  /\ opts \in Options
  /\ obj = NoValue
  /\ pc = "ready"
  /\ leaves = <<>>
  /\ li = 1
  /\ lastIndex = 1
  /\ acc = <<>>
  /\ outs = <<>>
  /\ cur = NoMatch
  /\ emitted = <<>>
  /\ calls = <<>>
  /\ result = NoValue
  /\ error = NoError

\* the interpolator is called: interpolate0(obj, env, opts)
Call(a) ==
  /\ obj' = a
  /\ leaves' = StringLeaves(a)
  /\ pc' = "scan"
  /\ UNCHANGED <<env, opts, li, lastIndex, acc, outs, cur, emitted, calls, result, error>>

\* interpolate(str, env, options)
InterpolateString == pc = "ready" /\ \E s \in Strings : Call(StringOf(s))

Scanning == pc = "scan" /\ li <= Len(leaves)

\* the text of the string between the last match and position i
Skipped(i) == SubSeq(leaves[li], lastIndex, i - 1)

\* the replacer is called with the next match and runs up to and including
\* opts.onMatchPlaceholder
OnMatch ==
  /\ Scanning
  /\ LET m == RegexExec(leaves[li], lastIndex)
         b == BeforeCallback(m)
     IN  /\ m # NoMatch
         /\ cur' = m
         /\ IF b.observe
              THEN /\ calls' = Append(calls, MatchRecord(m, env))
                   /\ pc' = "decide"
                   /\ UNCHANGED <<acc, lastIndex, emitted, error>>
            ELSE IF b.out.throws
              THEN /\ pc' = "thrown"
                   /\ error' = b.out.error
                   /\ UNCHANGED <<acc, lastIndex, emitted, calls>>
            ELSE /\ acc' = acc \o Skipped(m.index) \o b.out.text
                 /\ emitted' = b.out.text
                 /\ lastIndex' = m.index + Len(m.match)
                 /\ UNCHANGED <<pc, calls, error>>
  /\ UNCHANGED <<env, opts, obj, leaves, li, outs, result>>

\* the replacer goes on after the callback and returns or throws
Decide ==
  /\ pc = "decide"
  /\ LET d == AfterCallback(cur, env, opts)
     IN  IF d.throws
           THEN /\ pc' = "thrown"
                /\ error' = d.error
                /\ UNCHANGED <<acc, lastIndex, emitted>>
         ELSE /\ acc' = acc \o Skipped(cur.index) \o d.text
              /\ emitted' = d.text
              /\ lastIndex' = cur.index + Len(cur.match)
              /\ pc' = "scan"
              /\ UNCHANGED error
  /\ UNCHANGED <<env, opts, obj, leaves, li, outs, cur, calls, result>>

\* no match is left: str.replace returns, interpolate0 goes to the next string
EndString ==
  /\ Scanning
  /\ RegexExec(leaves[li], lastIndex) = NoMatch
  /\ outs' = Append(outs, acc \o Skipped(Len(leaves[li]) + 1))
  /\ li' = li + 1
  /\ lastIndex' = 1
  /\ acc' = <<>>
  /\ cur' = NoMatch
  /\ emitted' = <<>>
  /\ UNCHANGED <<env, opts, obj, pc, leaves, calls, result, error>>

\* every string is done: interpolate0 returns the rebuilt value
ReturnValue ==
  /\ pc = "scan"
  /\ li > Len(leaves)
  /\ result' = Rebuild(obj, outs, 0)
  /\ pc' = "returned"
  /\ UNCHANGED <<env, opts, obj, leaves, li, lastIndex, acc, outs, cur, emitted,
                 calls, error>>

Next == InterpolateString \/ OnMatch \/ Decide \/ EndString \/ ReturnValue

Spec == Init /\ [][Next]_vars

\* makeInterpolator(env, options) for the tree walk
InitTree ==
  /\ env \in TreeEnvs
  /\ opts \in Options
  /\ obj = NoValue
  /\ pc = "ready"
  /\ leaves = <<>>
  /\ li = 1
  /\ lastIndex = 1
  /\ acc = <<>>
  /\ outs = <<>>
  /\ cur = NoMatch
  /\ emitted = <<>>
  /\ calls = <<>>
  /\ result = NoValue
  /\ error = NoError

\* interpolate(obj, env, options) with a value tree
InterpolateTree == pc = "ready" /\ \E a \in Trees : Call(a)

NextTree == InterpolateTree \/ OnMatch \/ Decide \/ EndString \/ ReturnValue

SpecTree == InitTree /\ [][NextTree]_vars

----------------------------------------------------------------------------
(* Properties: the string engine *)

\* the replacer has returned for the match cur
Replaced == pc = "scan" /\ cur # NoMatch
\* the call has thrown, at the match cur
Threw == pc = "thrown"
Settled == Replaced \/ Threw

\* the matched text starts with one '$' / with two or more
OneDollar(m) == Len(m.match) >= 2 /\ m.match[2] # "$"
ManyDollars(m) == Len(m.match) >= 2 /\ m.match[2] = "$"

\* what the environment holds for the name of the match cur
Entry == Lookup(env, NameOf(cur))

ValidOps == { <<"-">>, <<"?">>, <<":", "-">>, <<":", "?">> }

StringsOnly == \A n \in DOMAIN env : env[n].t \in {"absent", "string"}

\* C1. A non-escaped braced placeholder with operator -, ?, :- or :? and
\* fallback F, preserveUndefined = false, an environment of strings: the
\* fallback action is taken exactly when the name is undefined (- and ?) or
\* undefined or empty (:- and :?); the action is to emit F for - and :-, to
\* throw ValueError with message F for ? and :?; otherwise the value is emitted.
C1_OperatorDispatch ==
  ( /\ Settled
    /\ OneDollar(cur)
    /\ cur.kind.def
    /\ cur.kind.s \in ValidOps
    /\ ~opts.preserveUndefined
    /\ StringsOnly )
  => LET undef == Entry.t = "absent"
         empty == Entry.t = "string" /\ Entry.s = <<>>
         colon == cur.kind.s[1] = ":"
         default == cur.kind.s[Len(cur.kind.s)] = "-"
         F == cur.fallback.s
     IN  IF undef \/ (colon /\ empty)
           THEN IF default THEN Replaced /\ emitted = F
                ELSE Threw /\ error = [class |-> "ValueError", message |-> F]
         ELSE Replaced /\ emitted = Entry.s

\* ${A:?..} with A the empty string has thrown ValueError with the fallback
C1_Witness ==
  /\ Threw
  /\ OneDollar(cur)
  /\ cur.kind.def /\ cur.kind.s = <<":", "?">>
  /\ ~opts.preserveUndefined
  /\ StringsOnly
  /\ Entry = Str(<<>>)
  /\ error = [class |-> "ValueError", message |-> cur.fallback.s]

\* C2. A placeholder introduced by two or more '$' is emitted as its matched
\* text without the first character, or unchanged with preserveEscaped; the
\* environment plays no part and no error is thrown.
C2_Escaping ==
  (cur # NoMatch /\ ManyDollars(cur))
  => /\ ~Threw
     /\ Replaced => emitted = IF opts.preserveEscaped THEN cur.match ELSE Tail(cur.match)

\* $$${A?..} with A undefined has been emitted as $${A?..}
C2_Witness ==
  /\ Replaced
  /\ Len(cur.match) >= 3 /\ cur.match[2] = "$" /\ cur.match[3] = "$"
  /\ cur.kind.def /\ cur.kind.s = <<"?">>
  /\ IsNullish(Entry)
  /\ ~opts.preserveEscaped
  /\ emitted = Tail(cur.match)

\* the inputs ${A-}, ${A?}, ${A:-}, ${A:?} behind one or more '$'
NoFallbackInputs ==
  { StringOf(Braced(k, <<"A">>, op)) : k \in 1..MaxDollars, op \in ValidOps }

\* C3. A braced form with an operator token and no fallback text makes the
\* call fail with SyntaxError, for every environment and configuration.
C3_MissingFallbackThrows ==
  obj \in NoFallbackInputs
  => /\ pc # "returned"
     /\ Threw => error.class = "SyntaxError"

\* operator tokens of the model's inputs that are none of the four
UnknownOps == (SeqsUpTo(OpChars, MaxTail - 1) \ {<<>>}) \ ValidOps

\* the inputs ${A<token>d} with an unknown token, behind one or more '$'
UnknownOpInputs ==
  { StringOf(Braced(k, <<"A">>, Append(op, "d"))) : k \in 1..MaxDollars, op \in UnknownOps }

\* C4 as claimed. A braced placeholder with an unknown operator token makes
\* the call fail with SyntaxError at every escaping depth, with every setting
\* of preserveEscaped and preserveUndefined, the name defined or not.
C4_UnknownOperatorAlwaysThrows ==
  obj \in UnknownOpInputs
  => /\ pc # "returned"
     /\ Threw => error.class = "SyntaxError"

\* C4 as amended. A braced placeholder with an unknown operator token makes
\* the call fail with SyntaxError when the replacer reaches it, unless it is
\* escaped, or its name is undefined and preserveUndefined is set: then it is
\* emitted as any escaped or preserved placeholder is, and nothing is thrown.
C4_UnknownOperator ==
  (Settled /\ cur.kind.def /\ cur.kind.s \notin ValidOps)
  => IF ManyDollars(cur)
       THEN Replaced /\ emitted = IF opts.preserveEscaped THEN cur.match
                                  ELSE Tail(cur.match)
     ELSE IF IsNullish(Entry) /\ opts.preserveUndefined
       THEN Replaced /\ emitted = cur.match
     ELSE Threw /\ error.class = "SyntaxError"

\* ${A--..} with A defined has thrown SyntaxError
C4_Witness ==
  /\ Threw
  /\ OneDollar(cur)
  /\ cur.kind.def /\ cur.kind.s = <<"-", "-">>
  /\ ~IsNullish(Entry)
  /\ error.class = "SyntaxError"

\* C5. With preserveUndefined, a non-escaped placeholder whose name is absent,
\* null or undefined is emitted verbatim whatever its operator: no default, no
\* ValueError.  A defined, empty name is not preserved: :- yields the fallback
\* and :? throws ValueError.
C5_PreserveUndefined ==
  (Settled /\ OneDollar(cur) /\ opts.preserveUndefined)
  => /\ IsNullish(Entry) => Replaced /\ emitted = cur.match
     /\ (Entry = Str(<<>>) /\ cur.kind.def /\ cur.kind.s = <<":", "-">>)
          => Replaced /\ emitted = cur.fallback.s
     /\ (Entry = Str(<<>>) /\ cur.kind.def /\ cur.kind.s = <<":", "?">>)
          => Threw /\ error = [class |-> "ValueError", message |-> cur.fallback.s]

\* ${A?..} with A null has been emitted verbatim
C5_Witness ==
  /\ Replaced
  /\ OneDollar(cur)
  /\ opts.preserveUndefined
  /\ Entry = Null
  /\ cur.kind.def /\ cur.kind.s = <<"?">>
  /\ emitted = cur.match

\* String(x): the string form of a value that is neither null nor undefined
StringForm(x) ==
  CASE x.t = "string"  -> x.s
    [] x.t = "number"  -> IF x.n = 0 THEN <<"0">> ELSE <<"5">>
    [] x.t = "boolean" -> IF x.n = 1 THEN <<"t", "r", "u", "e">>
                                     ELSE <<"f", "a", "l", "s", "e">>

\* C6. An entry that is neither null nor undefined (0 and false included) is
\* defined: a placeholder without operator emits its string form, and :- and
\* :? take it for empty only if that string form is the empty string.
C6_ValueCoercion ==
  (Settled /\ OneDollar(cur) /\ ~IsNullish(Entry))
  => /\ ~cur.kind.def => Replaced /\ emitted = StringForm(Entry)
     /\ (cur.kind.def /\ cur.kind.s = <<":", "-">> /\ StringForm(Entry) # <<>>)
          => Replaced /\ emitted = StringForm(Entry)
     /\ (cur.kind.def /\ cur.kind.s = <<":", "?">> /\ StringForm(Entry) # <<>>)
          => Replaced /\ emitted = StringForm(Entry)

\* the fallback texts of the model's inputs for an operator op
FallbacksFor(op) == { F \in Tails : F # <<>> /\ Len(op) + Len(F) <= MaxTail }

Finished == pc \in {"returned", "thrown"}

\* the call with '${A<op>F}' has reported one placeholder, with operator (op, F)
Recognized(op, F) ==
  LET str == Braced(1, <<"A">>, op \o F)
  IN  (obj = StringOf(str) /\ (pc = "decide" \/ Finished))
      => /\ Len(calls) = 1
         /\ calls[1].placeholder = str
         /\ calls[1].name = <<"A">>
         /\ calls[1].operator = [def |-> TRUE, kind |-> op, fallback |-> F]

\* C9 as claimed. For every operator op of the four and every non-empty
\* fallback text F without '}', F beginning with '-', ':' or '?' included,
\* '${A<op>F}' is one placeholder with operator (op, F).
C9_BracedGrammarAnyFallback ==
  \A op \in ValidOps : \A F \in FallbacksFor(op) : Recognized(op, F)

\* C9 as amended. The same for every F that is one character long or does not
\* begin with '-', ':' or '?'.
C9_BracedGrammar ==
  \A op \in ValidOps :
    \A F \in { G \in FallbacksFor(op) : Len(G) = 1 \/ G[1] \notin OpChars } :
      Recognized(op, F)

\* '${A-?}' has been reported with operator ('-', '?')
C9_Witness ==
  /\ obj = StringOf(Braced(1, <<"A">>, <<"-", "?">>))
  /\ Finished
  /\ Len(calls) = 1
  /\ calls[1].operator = [def |-> TRUE, kind |-> <<"-">>, fallback |-> <<"?">>]

----------------------------------------------------------------------------
(* Properties: the walk over a value tree *)

\* the strings of a value tree, depth first and left to right
RECURSIVE Flatten(_)
Flatten(a) ==
  IF a.tag = "string" THEN <<a.s>>
  ELSE IF a.items = <<>> THEN <<>>
  ELSE Flatten(a.items[1]) \o Flatten([a EXCEPT !.items = Tail(@)])

\* the placeholders of each string of the generated trees, left to right
PlaceholdersIn(str) ==
  CASE str = Leaf1 -> << <<"$", "A">> >>
    [] str = Leaf2 -> << <<"$", "$", "A">>,
                         <<"$", "{", "B", "?", "d", "}">>,
                         <<"$", "{", "A", ":", "d", "}">> >>
    [] str = Leaf3 -> << <<"$", "{", "B", ":", "-", "d", "}">>,
                         <<"$", "$", "$", "{", "A", ":", "?", "d", "}">> >>
    [] OTHER -> <<>>

\* the names they refer to
NamesIn(str) == IF str = Leaf1 THEN {<<"A">>} ELSE {<<"A">>, <<"B">>}

RECURSIVE PlaceholdersOf(_)
PlaceholdersOf(strs) ==
  IF strs = <<>> THEN <<>> ELSE PlaceholdersIn(Head(strs)) \o PlaceholdersOf(Tail(strs))

NamesOf(a) == UNION { NamesIn(Flatten(a)[i]) : i \in 1..Len(Flatten(a)) }

\* C7. With preserveUndefined and preserveEscaped, and an environment that
\* defines none of the names the tree refers to, the call throws nothing,
\* whatever the operators, and returns a value equal to its input.
C7_NoOpEnvironment ==
  ( /\ pc # "ready"
    /\ opts.preserveUndefined
    /\ opts.preserveEscaped
    /\ \A n \in NamesOf(obj) : IsNullish(Lookup(env, n)) )
  => /\ ~Threw
     /\ pc = "returned" => result = obj

\* an object holding the strings with ?, :? and an unknown operator has come
\* back unchanged
C7_Witness ==
  /\ pc = "returned"
  /\ opts.preserveUndefined
  /\ opts.preserveEscaped
  /\ \A n \in EnvNames : IsNullish(Lookup(env, n))
  /\ obj.tag = "object"
  /\ \E i, j \in 1..Len(leaves) : leaves[i] = Leaf2 /\ leaves[j] = Leaf3
  /\ Len(calls) >= 5
  /\ result = obj

\* what interpolateString returns for '$A ${B'
Leaf1Result ==
  IF IsNullish(Lookup(env, <<"A">>))
    THEN IF opts.preserveUndefined THEN Leaf1 ELSE Tail(Tail(Leaf1))
  ELSE Lookup(env, <<"A">>).s \o Tail(Tail(Leaf1))

\* r has the shape of a: the same length and element order, the same keys in
\* the same order, every scalar unchanged, a string for every string
RECURSIVE SameShape(_, _)
SameShape(a, r) ==
  /\ r.tag = a.tag
  /\ r.keys = a.keys
  /\ r.v = a.v
  /\ Len(r.items) = Len(a.items)
  /\ \A i \in 1..Len(a.items) : SameShape(a.items[i], r.items[i])
  /\ a.tag # "string" => r.s = a.s

\* C8. When the call returns, an array has become an array of the same
\* length, element by element; an object an object with the same keys in the
\* same order, placeholder text in a key left alone; each string the result
\* of interpolateString for it; any other scalar is unchanged.
C8_ShapePreserved ==
  pc = "returned"
  => /\ SameShape(obj, result)
     /\ Flatten(obj) = leaves
     /\ Flatten(result) = outs
     /\ Len(outs) = Len(leaves)
     /\ \A i \in 1..Len(leaves) : leaves[i] = Leaf1 => outs[i] = Leaf1Result
     /\ \A i, j \in 1..Len(leaves) : leaves[i] = leaves[j] => outs[i] = outs[j]

\* { '$A': ['$A ${B', 5] } has come back as { '$A': ['v ${B', 5] }
C8_Witness ==
  /\ pc = "returned"
  /\ obj = ObjectOf(<< <<"$", "A">> >>, <<ArrayOf(<<StringOf(Leaf1), Other(Num(5))>>)>>)
  /\ Lookup(env, <<"A">>) = Str(<<"v">>)
  /\ result = ObjectOf(<< <<"$", "A">> >>,
                       <<ArrayOf(<<StringOf(<<"v", " ", "$", "{", "B">>), Other(Num(5))>>)>>)

\* the Match records received so far are those of the first placeholders of
\* the tree, in order, each with its name, value and escaped flag
ObservedInOrder ==
  LET E == PlaceholdersOf(Flatten(obj))
  IN  /\ Len(calls) <= Len(E)
      /\ \A i \in 1..Len(calls) :
           /\ calls[i].placeholder = E[i]
           /\ calls[i].escaped = (E[i][2] = "$")
           /\ calls[i].name \in EnvNames
           /\ calls[i].value = IF IsNullish(Lookup(env, calls[i].name)) THEN Undefined
                               ELSE Lookup(env, calls[i].name)

\* C10. onMatchPlaceholder is called once for each placeholder, escaped and
\* preserved ones included, left to right in a string and depth first across
\* a tree, and before the outcome of that placeholder is decided: when the
\* i-th placeholder throws, the callback has received placeholders 1..i and
\* no other; text that is no placeholder is not reported.
C10_ObservationOrder ==
  /\ ObservedInOrder
  /\ pc = "returned" => Len(calls) = Len(PlaceholdersOf(Flatten(obj)))
  /\ (pc = "decide" \/ Settled)
       => LET n == Len(calls)
              before == Len(PlaceholdersOf(SubSeq(leaves, 1, li - 1)))
              here == PlaceholdersIn(leaves[li])
          IN  /\ n - before \in 1..Len(here)
              /\ here[n - before] = cur.match
              /\ calls[n].placeholder = cur.match

\* the third placeholder of an array of three strings, the second of its
\* second string, has thrown ValueError: three records received, the
\* placeholders after it never reported
C10_Witness ==
  /\ Threw
  /\ error.class = "ValueError"
  /\ obj.tag = "array"
  /\ Len(leaves) = 3
  /\ li = 2
  /\ Len(calls) = 3
  /\ calls[3].placeholder = cur.match
  /\ Len(PlaceholdersOf(Flatten(obj))) > 4

====
